---- MODULE Spec2Model ----
(***************************************************************************)
(* Model of src/src/clock_automation.py: the command line entry point      *)
(* main(), ClockAutomation.setup_driver, ClockAutomation.login and         *)
(* ClockAutomation.perform_clock_operation.                                *)
(*                                                                         *)
(* The program is single threaded; pc is the position of the one thread.   *)
(* Every call into the browser driver either returns or raises; the        *)
(* outcome is chosen by the environment at the action that makes the call  *)
(* and is recorded in the call log `calls`.  Strings that the code         *)
(* inspects character by character (the operation argument, the current    *)
(* URL) are sequences of one-character strings; strings the code only      *)
(* passes on (selectors, file names) are TLA+ strings.                     *)
(*                                                                         *)
(* Exceptions are Exception subclasses (WebDriverException,                *)
(* TimeoutException, OSError, ...).  time.sleep and the logger calls do    *)
(* not raise and change no state, so they are not steps of the model.      *)
(***************************************************************************)
EXTENDS Integers, Sequences, FiniteSets

\* ------------------------------------------------------------------------
\* Character strings and str.lower()
\* ------------------------------------------------------------------------

UpperLetters ==
    <<"A","B","C","D","E","F","G","H","I","J","K","L","M",
      "N","O","P","Q","R","S","T","U","V","W","X","Y","Z">>

LowerLetters ==
    <<"a","b","c","d","e","f","g","h","i","j","k","l","m",
      "n","o","p","q","r","s","t","u","v","w","x","y","z">>

LowerChar(c) ==
    IF \E i \in DOMAIN UpperLetters : UpperLetters[i] = c
    THEN LowerLetters[CHOOSE i \in DOMAIN UpperLetters : UpperLetters[i] = c]
    ELSE c

\* str.lower()
Lower(s) == [i \in DOMAIN s |-> LowerChar(s[i])]

\* the Python expression  sub in s
Contains(sub, s) ==
    \E i \in 0..Len(s) :
        /\ i + Len(sub) <= Len(s)
        /\ SubSeq(s, i + 1, i + Len(sub)) = sub

\* ------------------------------------------------------------------------
\* Program constants
\* ------------------------------------------------------------------------

\* Choices as it would be if argparse compared case-insensitively
ChoicesIgnoringCase ==
    { <<"i","n">>, <<"o","u","t">>, <<"I","N">>, <<"O","u","t">> }

\* argparse choices of the positional argument `operation`
Choices == { <<"i","n">>, <<"o","u","t">> }

ClockInSelectors ==
    << "input[value*='Clock In']",
       "input[value*='clock in']",
       "#clock-in-button",
       "#btnClockIn",
       "button[value*='Clock In']",
       "button[onclick*='clockIn']" >>

ClockOutSelectors ==
    << "input[value*='Clock Out']",
       "input[value*='clock out']",
       "#clock-out-button",
       "#btnClockOut",
       "button[value*='Clock Out']",
       "button[onclick*='clockOut']" >>

\* the fallback Chrome version of setup_driver
FallbackVersion == "139.0.7258.139"

\* the driver calls of login's try block, in program order
LoginSteps ==
    << [op |-> "get",             arg |-> "login_url"],
       [op |-> "save_screenshot", arg |-> "login_page.png"],
       [op |-> "wait_presence",   arg |-> "Username"],
       [op |-> "find_element",    arg |-> "Password"],
       [op |-> "find_element",    arg |-> "[type='submit']"],
       [op |-> "clear",           arg |-> "Username"],
       [op |-> "send_keys",       arg |-> "Username"],
       [op |-> "clear",           arg |-> "Password"],
       [op |-> "send_keys",       arg |-> "Password"],
       [op |-> "click",           arg |-> "[type='submit']"],
       [op |-> "save_screenshot", arg |-> "after_login.png"],
       [op |-> "current_url",     arg |-> "driver"] >>

\* the environment variables __init__ reads
Keys == {"CLOCK_USERNAME", "CLOCK_PASSWORD"}

\* the default of both os.getenv calls of __init__
DefaultCredential == "E00358@ocs"

\* ------------------------------------------------------------------------
\* Inputs chosen by the environment
\* ------------------------------------------------------------------------

\* values a credential variable can be given in the shell or in a file
CredentialValues == {"alice", "bob"}

\* values given on the command line as the positional argument
OperationArgs ==
    { <<"i","n">>, <<"o","u","t">>, <<"I","N">>, <<"O","u","t">>,
      <<"p","u","n","c","h">> }

\* values a caller can pass to perform_clock_operation as operation_type
MethodArgs ==
    { <<"i","n">>, <<"I","N">>, <<"o","u","t">>, <<"p","u","n","c","h">> }

\* URLs the browser can be on after the form was submitted
Urls ==
    { <<"/","A","c","c","o","u","n","t","/","L","o","g","O","n">>,
      <<"/","L","O","G","I","N","?","r","=","1">>,
      <<"/","H","o","m","e">>,
      <<"/","l","o","g","/","o","n">> }

\* what the page holds for one clock-button selector:
\*   absent     no clickable element within the wait: TimeoutException
\*   hidden     element found, is_displayed() is False
\*   clickable  element found, displayed, click() returns
\*   obscured   element found, displayed, click() raises
ElementStates == {"absent", "hidden", "clickable", "obscured"}

\* what the version-matched download strategy can meet
DownloadOutcomes == {"ok", "download_fails", "not_in_package", "chrome_fails"}

\* ------------------------------------------------------------------------
\* State
\* ------------------------------------------------------------------------

VARIABLES
    pc,             \* position of the program
    operation,      \* args.operation
    dry_run,        \* args.dry_run
    operation_type, \* parameter of perform_clock_operation
    attempts,       \* setup_driver: the strategies attempted, with outcome
    chrome_version, \* setup_driver: chrome_version
    driver,         \* the handle setup_driver returned ("None" if none)
    step,           \* login: index of the next driver call in LoginSteps
    current_url,    \* login: current_url
    login_result,   \* return value of login
    sel,            \* perform_clock_operation: index of the loop variable
    button_found,   \* perform_clock_operation: button_found
    page,           \* what the page held for the selectors probed so far
    result,         \* return value of perform_clock_operation
    rc,             \* exit status of the process
    calls,          \* every call made on the driver handle, in order
    shell_env,      \* os.environ when the interpreter started
    dotenv_file,    \* the file .env that load_dotenv() finds at import
    env_file,       \* the file args.env names
    environ,        \* os.environ
    username,       \* self.username
    password        \* self.password

vars == << pc, operation, dry_run, operation_type, attempts, chrome_version,
           driver, step, current_url, login_result, sel, button_found,
           page, result, rc, calls, shell_env, dotenv_file, env_file,
           environ, username, password >>

\* a variable the program has not assigned yet
NoValue == "unset"
NoString == << >>

\* the assignments of the credential variables in one place (shell or
\* file); NoValue: the variable is not assigned there
EnvMaps == [Keys -> CredentialValues \cup {NoValue}]
NoVars == [k \in Keys |-> NoValue]

\* an environment file: whether it exists and what it assigns
EnvFiles ==
    { f \in [exists : BOOLEAN, vars : EnvMaps] : f.exists \/ f.vars = NoVars }

\* load_dotenv(path, override): a variable the file assigns is set in the
\* environment unless it is already set there and override is False; a
\* file that does not exist sets nothing
LoadDotenv(env, file, override) ==
    IF ~file.exists THEN env
    ELSE [k \in Keys |->
            IF file.vars[k] = NoValue THEN env[k]
            ELSE IF env[k] # NoValue /\ ~override THEN env[k]
            ELSE file.vars[k]]

\* os.getenv(key, default)
Getenv(env, key, default) ==
    IF env[key] = NoValue THEN default ELSE env[key]

\* one entry of the call log
Call(op, arg, raised) == [op |-> op, arg |-> arg, raised |-> raised]

\* number of calls of operation op in a call log
RECURSIVE CountCalls(_, _)
CountCalls(log, op) ==
    IF log = << >> THEN 0
    ELSE (IF log[Len(log)].op = op THEN 1 ELSE 0)
         + CountCalls(SubSeq(log, 1, Len(log) - 1), op)

\* the interpreter is about to call main(): the module level
\* load_dotenv() has run, args are what the command line gives
InitProgram ==
    /\ pc = "parse_args"
    /\ operation \in OperationArgs
    /\ dry_run \in BOOLEAN
    /\ operation_type = NoString
    /\ attempts = << >>
    /\ chrome_version = NoValue
    /\ driver = NoValue
    /\ step = 1
    /\ current_url = NoString
    /\ login_result = FALSE
    /\ sel = 1
    /\ button_found = FALSE
    /\ page = << >>
    /\ result = FALSE
    /\ rc = -1
    /\ calls = << >>
    /\ environ = LoadDotenv(shell_env, dotenv_file, FALSE)
    /\ username = NoValue
    /\ password = NoValue

\* a run without --env (args.env is the default '.env') in a directory
\* whose .env assigns both credentials
Init ==
    /\ shell_env = NoVars
    /\ dotenv_file = [exists |-> TRUE, vars |-> [k \in Keys |-> "alice"]]
    /\ env_file = dotenv_file
    /\ InitProgram

\* a call of perform_clock_operation on a constructed instance, with any
\* string as operation type (`operation` holds the argument of the call)
InitMethod ==
    /\ pc = "perform_start"
    /\ operation \in MethodArgs
    /\ dry_run = FALSE
    /\ operation_type = NoString
    /\ attempts = << >>
    /\ chrome_version = NoValue
    /\ driver = NoValue
    /\ step = 1
    /\ current_url = NoString
    /\ login_result = FALSE
    /\ sel = 1
    /\ button_found = FALSE
    /\ page = << >>
    /\ result = FALSE
    /\ rc = -1
    /\ calls = << >>
    /\ shell_env = NoVars
    /\ dotenv_file = [exists |-> FALSE, vars |-> NoVars]
    /\ env_file = dotenv_file
    /\ environ = LoadDotenv(shell_env, dotenv_file, FALSE)
    /\ username = Getenv(environ, "CLOCK_USERNAME", DefaultCredential)
    /\ password = Getenv(environ, "CLOCK_PASSWORD", DefaultCredential)

\* a run with any shell environment, any .env and any file named by --env
InitEnv ==
    /\ shell_env \in EnvMaps
    /\ dotenv_file \in EnvFiles
    /\ env_file \in EnvFiles
    /\ InitProgram

\* ------------------------------------------------------------------------
\* main: argument parsing and dispatch
\* ------------------------------------------------------------------------

\* parser.parse_args(): a value outside choices ends the process (status 2)
ParseArgs ==
    /\ pc = "parse_args"
    /\ IF operation \in Choices
       THEN /\ pc' = "main_dispatch"
            /\ rc' = rc
       ELSE /\ pc' = "exited"
            /\ rc' = 2
    /\ UNCHANGED << shell_env, dotenv_file, env_file, environ, username,
                    password, operation, dry_run, operation_type, attempts,
                    chrome_version, driver, step, current_url, login_result,
                    sel, button_found, page, result, calls >>

\* DispatchTarget as it would be if the dry-run branch were missing
DispatchAlwaysPerforms(dry) == "perform_start"

\* where main goes after constructing ClockAutomation
DispatchTarget(dry) == IF dry THEN "sd_wdm" ELSE "perform_start"

\* if os.path.exists(args.env): load_dotenv(args.env);
\* automation = ClockAutomation(); if args.dry_run: ... else perform
MainDispatch ==
    /\ pc = "main_dispatch"
    /\ environ' = LoadDotenv(environ, env_file, FALSE)
    /\ username' = Getenv(environ', "CLOCK_USERNAME", DefaultCredential)
    /\ password' = Getenv(environ', "CLOCK_PASSWORD", DefaultCredential)
    /\ pc' = DispatchTarget(dry_run)
    /\ UNCHANGED << shell_env, dotenv_file, env_file, operation, dry_run, operation_type, attempts,
                    chrome_version, driver, step, current_url, login_result,
                    sel, button_found, page, result, rc, calls >>

\* perform_clock_operation(args.operation): driver = self.setup_driver()
PerformStart ==
    /\ pc = "perform_start"
    /\ operation_type' = operation
    /\ pc' = "sd_wdm"
    /\ UNCHANGED << shell_env, dotenv_file, env_file, environ, username,
                    password, operation, dry_run, attempts, chrome_version, driver,
                    step, current_url, login_result, sel, button_found, page,
                    result, rc, calls >>

\* ------------------------------------------------------------------------
\* setup_driver
\* ------------------------------------------------------------------------

Attempt(k, ok) == [strategy |-> k, ok |-> ok]

\* the handle each strategy produces
HandleOf(k) ==
    CASE k = 1 -> "wdm_driver"
      [] k = 2 -> "manual_driver"
      [] k = 3 -> "system_driver"

\* AfterFailure as it would be if a failure of webdriver-manager raised
\* into the outer handler, which goes straight to the system chromedriver
AfterFailureOuterHandler(k) ==
    CASE k = 1 -> "sd_system"
      [] k = 2 -> "sd_system"
      [] k = 3 -> "sd_return"

\* AfterFailure as it would be if a failed webdriver-manager were tried a
\* second time before the manual setup
AfterFailureRetries(k) ==
    CASE k = 1 -> IF Len(attempts) < 2 THEN "sd_wdm" ELSE "sd_version"
      [] k = 2 -> "sd_system"
      [] k = 3 -> "sd_return"

\* where setup_driver goes after strategy k failed ("sd_return": give up)
AfterFailure(k) ==
    CASE k = 1 -> "sd_version"
      [] k = 2 -> "sd_system"
      [] k = 3 -> "sd_return"

\* strategy 1: webdriver-manager, guarded by `except Exception`
WebdriverManager ==
    /\ pc = "sd_wdm"
    /\ \E ok \in BOOLEAN :
        /\ attempts' = Append(attempts, Attempt(1, ok))
        /\ IF ok
           THEN /\ driver' = HandleOf(1)
                /\ pc' = "sd_return"
           ELSE /\ driver' = driver
                /\ pc' = AfterFailure(1)
    /\ UNCHANGED << shell_env, dotenv_file, env_file, environ, username,
                    password, operation, dry_run, operation_type, chrome_version, step,
                    current_url, login_result, sel, button_found, page, result, rc,
                    calls >>

\* strategy 2, first part: query the installed Chrome for its version; any
\* failure is swallowed by a bare except that sets the fallback version
ChromeVersion ==
    /\ pc = "sd_version"
    /\ \E detected \in BOOLEAN :
        chrome_version' = IF detected THEN "detected" ELSE FallbackVersion
    /\ pc' = "sd_download"
    /\ UNCHANGED << shell_env, dotenv_file, env_file, environ, username,
                    password, operation, dry_run, operation_type, attempts, driver,
                    step, current_url, login_result, sel, button_found, page,
                    result, rc, calls >>

\* strategy 2, second part: download, extract, locate, start; every failure
\* raises into the outer `except Exception`
ManualDownload ==
    /\ pc = "sd_download"
    /\ \E outcome \in DownloadOutcomes :
        /\ attempts' = Append(attempts, Attempt(2, outcome = "ok"))
        /\ IF outcome = "ok"
           THEN /\ driver' = HandleOf(2)
                /\ pc' = "sd_return"
           ELSE /\ driver' = driver
                /\ pc' = AfterFailure(2)
    /\ UNCHANGED << shell_env, dotenv_file, env_file, environ, username,
                    password, operation, dry_run, operation_type, chrome_version, step,
                    current_url, login_result, sel, button_found, page, result, rc,
                    calls >>

\* strategy 3: /usr/local/bin/chromedriver, guarded by a bare except that
\* returns None
SystemChromedriver ==
    /\ pc = "sd_system"
    /\ \E ok \in BOOLEAN :
        /\ attempts' = Append(attempts, Attempt(3, ok))
        /\ IF ok
           THEN /\ driver' = HandleOf(3)
                /\ pc' = "sd_return"
           ELSE /\ driver' = "None"
                /\ pc' = AfterFailure(3)
    /\ UNCHANGED << shell_env, dotenv_file, env_file, environ, username,
                    password, operation, dry_run, operation_type, chrome_version, step,
                    current_url, login_result, sel, button_found, page, result, rc,
                    calls >>

\* Truthy as it would be if the callers did not test the handle
TruthyAlways(d) == TRUE

\* truth value of the handle in `if driver:` / `if not driver:`
Truthy(d) == d # "None"

\* main, dry run: driver = automation.setup_driver(); if driver: ...;
\* return 0
DryAfterSetup ==
    /\ pc = "sd_return"
    /\ dry_run
    /\ IF Truthy(driver)
       THEN /\ pc' = "login"
            /\ rc' = rc
       ELSE /\ pc' = "done"
            /\ rc' = 0
    /\ UNCHANGED << shell_env, dotenv_file, env_file, environ, username,
                    password, operation, dry_run, operation_type, attempts,
                    chrome_version, driver, step, current_url, login_result,
                    sel, button_found, page, result, calls >>

\* perform_clock_operation: if not driver: return False (outside the try)
PerformAfterSetup ==
    /\ pc = "sd_return"
    /\ ~dry_run
    /\ IF Truthy(driver)
       THEN /\ pc' = "login"
            /\ result' = result
       ELSE /\ pc' = "perform_return"
            /\ result' = FALSE
    /\ UNCHANGED << shell_env, dotenv_file, env_file, environ, username,
                    password, operation, dry_run, operation_type, attempts,
                    chrome_version, driver, step, current_url, login_result,
                    sel, button_found, page, rc, calls >>

\* ------------------------------------------------------------------------
\* login
\* ------------------------------------------------------------------------

\* IsLoginPage as it would be without the calls of lower()
IsLoginPageCaseSensitive(url) ==
    \/ Contains(<<"l","o","g","i","n">>, url)
    \/ Contains(<<"l","o","g","o","n">>, url)

\* the check of the URL after the form was submitted
IsLoginPage(url) ==
    \/ Contains(<<"l","o","g","i","n">>, Lower(url))
    \/ Contains(<<"l","o","g","o","n">>, Lower(url))

\* one driver call of the try block; an exception goes to the handler
LoginStep ==
    /\ pc = "login"
    /\ \E raised \in BOOLEAN, url \in Urls :
        /\ calls' = Append(calls, Call(LoginSteps[step].op,
                                       LoginSteps[step].arg, raised))
        /\ IF raised
           THEN /\ pc' = "login_except"
                /\ UNCHANGED << step, current_url >>
           ELSE IF step = Len(LoginSteps)
                THEN /\ pc' = "login_check"
                     /\ current_url' = url
                     /\ step' = step
                ELSE /\ pc' = "login"
                     /\ step' = step + 1
                     /\ current_url' = current_url
    /\ UNCHANGED << shell_env, dotenv_file, env_file, environ, username,
                    password, operation, dry_run, operation_type, attempts,
                    chrome_version, driver, login_result, sel, button_found, page,
                    result, rc >>

\* if "login" in current_url.lower() or "logon" in ...: return False
\* else return True
LoginCheck ==
    /\ pc = "login_check"
    /\ login_result' = ~IsLoginPage(current_url)
    /\ pc' = "login_return"
    /\ UNCHANGED << shell_env, dotenv_file, env_file, environ, username,
                    password, operation, dry_run, operation_type, attempts,
                    chrome_version, driver, step, current_url, sel,
                    button_found, page, result, rc, calls >>

\* LoginExcept as it would be if the handler tried the login once more
\* instead of reporting the failure
LoginExceptRetries ==
    /\ pc = "login_except"
    /\ \E raised \in BOOLEAN :
        calls' = Append(calls, Call("save_screenshot", "login_error.png",
                                    raised))
    /\ login_result' = FALSE
    /\ step' = 1
    /\ pc' = IF CountCalls(calls, "get") < 2 THEN "login" ELSE "login_return"
    /\ UNCHANGED << shell_env, dotenv_file, env_file, environ, username,
                    password, operation, dry_run, operation_type, attempts,
                    chrome_version, driver, current_url, sel, button_found,
                    page, result, rc >>

\* except Exception: guarded save of login_error.png; return False
LoginExcept ==
    /\ pc = "login_except"
    /\ \E raised \in BOOLEAN :
        calls' = Append(calls, Call("save_screenshot", "login_error.png",
                                    raised))
    /\ login_result' = FALSE
    /\ pc' = "login_return"
    /\ UNCHANGED << shell_env, dotenv_file, env_file, environ, username,
                    password, operation, dry_run, operation_type, attempts,
                    chrome_version, driver, step, current_url, sel,
                    button_found, page, result, rc >>

\* main, dry run: success = automation.login(driver); driver.quit();
\* return 0.  quit is not guarded here: an exception leaves main and the
\* interpreter ends the process with status 1
DryAfterLogin ==
    /\ pc = "login_return"
    /\ dry_run
    /\ \E raised \in BOOLEAN :
        /\ calls' = Append(calls, Call("quit", "driver", raised))
        /\ IF raised
           THEN /\ pc' = "crashed"
                /\ rc' = 1
           ELSE /\ pc' = "done"
                /\ rc' = 0
    /\ UNCHANGED << shell_env, dotenv_file, env_file, environ, username,
                    password, operation, dry_run, operation_type, attempts,
                    chrome_version, driver, step, current_url, login_result,
                    sel, button_found, page, result >>

\* ------------------------------------------------------------------------
\* perform_clock_operation
\* ------------------------------------------------------------------------

\* ReturnInTry as it would be if quit were not in a finally clause
ReturnSkipsFinally == "perform_return"

\* where a `return` inside the try statement goes: the finally clause
ReturnInTry == "finally"

\* if not self.login(driver): return False
PerformAfterLogin ==
    /\ pc = "login_return"
    /\ ~dry_run
    /\ IF login_result
       THEN /\ pc' = "probe"
            /\ result' = result
       ELSE /\ pc' = ReturnInTry
            /\ result' = FALSE
    /\ sel' = 1
    /\ UNCHANGED << shell_env, dotenv_file, env_file, environ, username,
                    password, operation, dry_run, operation_type, attempts,
                    chrome_version, driver, step, current_url, login_result,
                    button_found, page, rc, calls >>

\* the selector list of the operation type
Selectors(op) ==
    IF Lower(op) = <<"i","n">> THEN ClockInSelectors ELSE ClockOutSelectors

\* the driver calls one loop iteration makes on selector s
ProbeCalls(s, outcome) ==
    CASE outcome = "absent" ->
            << Call("wait_clickable", s, TRUE) >>
      [] outcome = "hidden" ->
            << Call("wait_clickable", s, FALSE),
               Call("is_displayed", s, FALSE) >>
      [] outcome = "clickable" ->
            << Call("wait_clickable", s, FALSE),
               Call("is_displayed", s, FALSE),
               Call("click", s, FALSE) >>
      [] outcome = "obscured" ->
            << Call("wait_clickable", s, FALSE),
               Call("is_displayed", s, FALSE),
               Call("click", s, TRUE) >>

\* Breaks as it would be without the break statement
NeverBreaks(outcome) == FALSE

\* the loop stops (break) exactly when the click returned
Breaks(outcome) == outcome = "clickable"

\* ProbeSelector as it would be if the loop started over at the end of
\* the list until a click returned
ProbeSelectorCycles ==
    /\ pc = "probe"
    /\ \E outcome \in ElementStates :
        /\ page' = Append(page, outcome)
        /\ calls' = calls \o ProbeCalls(Selectors(operation_type)[sel],
                                        outcome)
        /\ button_found' = (button_found \/ outcome = "clickable")
        /\ IF Breaks(outcome)
           THEN /\ pc' = "after_loop"
                /\ sel' = sel
           ELSE /\ pc' = "probe"
                /\ sel' = IF sel = Len(Selectors(operation_type))
                          THEN 1 ELSE sel + 1
    /\ UNCHANGED << shell_env, dotenv_file, env_file, environ, username,
                    password, operation, dry_run, operation_type, attempts,
                    chrome_version, driver, step, current_url, login_result,
                    result, rc >>

\* one iteration of `for selector in selectors`
ProbeSelector ==
    /\ pc = "probe"
    /\ \E outcome \in ElementStates :
        /\ page' = Append(page, outcome)
        /\ calls' = calls \o ProbeCalls(Selectors(operation_type)[sel],
                                        outcome)
        /\ button_found' = (button_found \/ outcome = "clickable")
        /\ IF Breaks(outcome)
           THEN /\ pc' = "after_loop"
                /\ sel' = sel
           ELSE IF sel = Len(Selectors(operation_type))
                THEN /\ pc' = "after_loop"
                     /\ sel' = sel
                ELSE /\ pc' = "probe"
                     /\ sel' = sel + 1
    /\ UNCHANGED << shell_env, dotenv_file, env_file, environ, username,
                    password, operation, dry_run, operation_type, attempts,
                    chrome_version, driver, step, current_url, login_result,
                    result, rc >>

\* ButtonNotFound as it would be without its `return False`: the function
\* goes on to the final screenshot and `return True`
ButtonNotFoundFallsThrough ==
    /\ pc = "after_loop"
    /\ ~button_found
    /\ calls' = calls \o
            << Call("save_screenshot", "button_not_found.png", FALSE),
               Call("save_screenshot", "after_operation.png", FALSE) >>
    /\ pc' = ReturnInTry
    /\ result' = TRUE
    /\ UNCHANGED << shell_env, dotenv_file, env_file, environ, username,
                    password, operation, dry_run, operation_type, attempts,
                    chrome_version, driver, step, current_url, login_result,
                    sel, button_found, page, rc >>

\* ButtonNotFound as it would be without the diagnostic screenshot
ButtonNotFoundNoScreenshot ==
    /\ pc = "after_loop"
    /\ ~button_found
    /\ pc' = ReturnInTry
    /\ result' = FALSE
    /\ UNCHANGED << shell_env, dotenv_file, env_file, environ, username,
                    password, operation, dry_run, operation_type, attempts,
                    chrome_version, driver, step, current_url, login_result,
                    sel, button_found, page, rc, calls >>

\* if not button_found: save button_not_found.png; return False
ButtonNotFound ==
    /\ pc = "after_loop"
    /\ ~button_found
    /\ \E raised \in BOOLEAN :
        /\ calls' = Append(calls, Call("save_screenshot",
                                       "button_not_found.png", raised))
        /\ IF raised
           THEN /\ pc' = "operation_except"
                /\ result' = result
           ELSE /\ pc' = ReturnInTry
                /\ result' = FALSE
    /\ UNCHANGED << shell_env, dotenv_file, env_file, environ, username,
                    password, operation, dry_run, operation_type, attempts,
                    chrome_version, driver, step, current_url, login_result,
                    sel, button_found, page, rc >>

\* time.sleep(3); save after_operation.png; return True
Completion ==
    /\ pc = "after_loop"
    /\ button_found
    /\ \E raised \in BOOLEAN :
        /\ calls' = Append(calls, Call("save_screenshot",
                                       "after_operation.png", raised))
        /\ IF raised
           THEN /\ pc' = "operation_except"
                /\ result' = result
           ELSE /\ pc' = ReturnInTry
                /\ result' = TRUE
    /\ UNCHANGED << shell_env, dotenv_file, env_file, environ, username,
                    password, operation, dry_run, operation_type, attempts,
                    chrome_version, driver, step, current_url, login_result,
                    sel, button_found, page, rc >>

\* OperationExcept as it would be if the handler only logged and the
\* function went on to its `return True`
OperationExceptSwallows ==
    /\ pc = "operation_except"
    /\ result' = TRUE
    /\ pc' = ReturnInTry
    /\ UNCHANGED << shell_env, dotenv_file, env_file, environ, username,
                    password, operation, dry_run, operation_type, attempts,
                    chrome_version, driver, step, current_url, login_result,
                    sel, button_found, page, rc, calls >>

\* except Exception: guarded save of operation_error.png; return False
OperationExcept ==
    /\ pc = "operation_except"
    /\ \E raised \in BOOLEAN :
        calls' = Append(calls, Call("save_screenshot", "operation_error.png",
                                    raised))
    /\ result' = FALSE
    /\ pc' = ReturnInTry
    /\ UNCHANGED << shell_env, dotenv_file, env_file, environ, username,
                    password, operation, dry_run, operation_type, attempts,
                    chrome_version, driver, step, current_url, login_result,
                    sel, button_found, page, rc >>

\* finally: try: driver.quit() except: pass
Finally ==
    /\ pc = "finally"
    /\ \E raised \in BOOLEAN :
        calls' = Append(calls, Call("quit", "driver", raised))
    /\ pc' = "perform_return"
    /\ UNCHANGED << shell_env, dotenv_file, env_file, environ, username,
                    password, operation, dry_run, operation_type, attempts,
                    chrome_version, driver, step, current_url, login_result,
                    sel, button_found, page, result, rc >>

\* ExitCode as it would be if main ignored the result, as its dry-run
\* branch does
ExitCodeAlwaysZero(success) == 0

\* main: return 0 if success else 1
ExitCode(success) == IF success THEN 0 ELSE 1

\* success = automation.perform_clock_operation(args.operation)
MainReport ==
    /\ pc = "perform_return"
    /\ rc' = ExitCode(result)
    /\ pc' = "done"
    /\ UNCHANGED << shell_env, dotenv_file, env_file, environ, username,
                    password, operation, dry_run, operation_type, attempts,
                    chrome_version, driver, step, current_url, login_result,
                    sel, button_found, page, result, calls >>

\* ------------------------------------------------------------------------
\* Specification
\* ------------------------------------------------------------------------

Next ==
    \/ ParseArgs
    \/ MainDispatch
    \/ PerformStart
    \/ WebdriverManager
    \/ ChromeVersion
    \/ ManualDownload
    \/ SystemChromedriver
    \/ DryAfterSetup
    \/ PerformAfterSetup
    \/ LoginStep
    \/ LoginCheck
    \/ LoginExcept
    \/ DryAfterLogin
    \/ PerformAfterLogin
    \/ ProbeSelector
    \/ ButtonNotFound
    \/ Completion
    \/ OperationExcept
    \/ Finally
    \/ MainReport

Spec == Init /\ [][Next]_vars

\* perform_clock_operation alone, from its call to its return
NextMethod ==
    \/ PerformStart
    \/ WebdriverManager
    \/ ChromeVersion
    \/ ManualDownload
    \/ SystemChromedriver
    \/ PerformAfterSetup
    \/ LoginStep
    \/ LoginCheck
    \/ LoginExcept
    \/ PerformAfterLogin
    \/ ProbeSelector
    \/ ButtonNotFound
    \/ Completion
    \/ OperationExcept
    \/ Finally

SpecMethod == InitMethod /\ [][NextMethod]_vars

\* every driver call returns or raises within its bounded wait
FairMethod == SpecMethod /\ WF_vars(NextMethod)

\* the part of main that settles the credentials, for every environment
NextEnv ==
    \/ ParseArgs
    \/ MainDispatch

SpecEnv == InitEnv /\ [][NextEnv]_vars

\* ------------------------------------------------------------------------
\* Vocabulary of the properties
\* ------------------------------------------------------------------------

ClockSelectors ==
    { ClockInSelectors[i] : i \in DOMAIN ClockInSelectors }
        \cup { ClockOutSelectors[i] : i \in DOMAIN ClockOutSelectors }

IsProbe(c) == c.op = "wait_clickable"
IsClockClick(c) == c.op = "click" /\ c.arg \in ClockSelectors

\* the probes and the clicks of clock buttons made so far, in order
Probes == SelectSeq(calls, IsProbe)
ClockClicks == SelectSeq(calls, IsClockClick)

\* a click of a clock button has returned
Clicked ==
    \E i \in DOMAIN calls : IsClockClick(calls[i]) /\ ~calls[i].raised

QuitCount == CountCalls(calls, "quit")

\* setup_driver returned a handle
HandleReturned == driver \notin {NoValue, "None"}

\* perform_clock_operation has returned to main
PerformReturned == ~dry_run /\ pc \in {"perform_return", "done"}

SetupLabels == {"sd_wdm", "sd_version", "sd_download", "sd_system"}
BeforeSetup == {"parse_args", "main_dispatch", "perform_start", "exited"}

\* a stage failed with an exception that no local handler of the selector
\* loop or of the release absorbs
StageRaised ==
    \E i \in DOMAIN calls :
        /\ calls[i].raised
        /\ calls[i].op \notin {"wait_clickable", "quit"}
        /\ ~IsClockClick(calls[i])

\* ------------------------------------------------------------------------
\* C1
\* ------------------------------------------------------------------------

\* C1: in every invocation of perform_clock_operation in which setup_driver
\* returned a handle, driver.quit() has been called exactly once when the
\* function returns, on every exit path; it is never called twice, it is
\* the last call made on the handle, and no exception (of a screenshot or
\* of quit itself) leaves the function.
C1_QuitExactlyOnce ==
    ~dry_run =>
        /\ QuitCount <= 1
        /\ pc # "crashed"
        /\ (PerformReturned /\ HandleReturned => QuitCount = 1)
        /\ (QuitCount = 1 =>
                /\ pc \in {"perform_return", "done"}
                /\ calls[Len(calls)].op = "quit")

\* the function returned after the button_not_found.png screenshot, the
\* operation_error.png screenshot and quit all raised
C1_Witness ==
    /\ PerformReturned
    /\ QuitCount = 1
    /\ calls[Len(calls)] = Call("quit", "driver", TRUE)
    /\ \E i \in DOMAIN calls :
        calls[i] = Call("save_screenshot", "button_not_found.png", TRUE)
    /\ \E i \in DOMAIN calls :
        calls[i] = Call("save_screenshot", "operation_error.png", TRUE)

\* ------------------------------------------------------------------------
\* C2
\* ------------------------------------------------------------------------

\* C2: in dry-run mode main ends with status 0 only when driver setup and
\* login both succeeded, and with status 1 when setup yields no handle or
\* login reports failure.
C2_DryRunExitStatus ==
    (dry_run /\ pc \in {"done", "crashed"}) =>
        /\ (rc = 0 => HandleReturned /\ login_result)
        /\ (~HandleReturned \/ ~login_result => rc = 1)

\* ------------------------------------------------------------------------
\* C3
\* ------------------------------------------------------------------------

\* C3: a run that is not a dry run ends with status 0 exactly when
\* perform_clock_operation returned True, which implies that a driver was
\* acquired, login succeeded and a clock button was clicked; in every other
\* case (no driver, login failure, button not found, exception in a stage)
\* it ends with status 1, and no exception leaves main.
C3_ExitStatus ==
    ~dry_run =>
        /\ pc # "crashed"
        /\ (pc = "done" =>
                /\ rc \in {0, 1}
                /\ (rc = 0 <=> result)
                /\ (rc = 0 => HandleReturned /\ login_result /\ Clicked)
                /\ (StageRaised => rc = 1))

\* a successful run through the third provisioning strategy
C3_Witness ==
    /\ ~dry_run
    /\ pc = "done"
    /\ rc = 0
    /\ driver = "system_driver"
    /\ Clicked

\* ------------------------------------------------------------------------
\* C4
\* ------------------------------------------------------------------------

\* C4: whenever the click of the clock button has returned,
\* perform_clock_operation returns True; no failure of a later step turns
\* the performed click into a reported failure.
C4_ClickImpliesSuccess ==
    (PerformReturned /\ Clicked) => result

\* ------------------------------------------------------------------------
\* C5
\* ------------------------------------------------------------------------

LoginMarkers == { <<"l","o","g","i","n">>, <<"l","o","g","o","n">> }

\* the URL read after the submission has a marker in it, in any case
StillOnLoginPage ==
    \E m \in LoginMarkers : \E i \in 1..Len(current_url) :
        /\ i + 4 <= Len(current_url)
        /\ \A j \in 1..5 : LowerChar(current_url[i + j - 1]) = m[j]

\* C5: if the URL read after the form was submitted contains 'login' or
\* 'logon' in any letter case, login returns False, no clock-button
\* selector is probed, no clock button is clicked, and
\* perform_clock_operation returns False.
C5_LoginPageMarker ==
    (StillOnLoginPage /\ pc # "login_check") =>
        /\ ~login_result
        /\ Probes = << >>
        /\ ClockClicks = << >>
        /\ page = << >>
        /\ pc \notin {"probe", "after_loop", "operation_except"}
        /\ (PerformReturned => ~result)

\* perform_clock_operation returned after a login that ended on an URL with
\* the marker in upper case
C5_Witness ==
    /\ PerformReturned
    /\ current_url = <<"/","L","O","G","I","N","?","r","=","1">>
    /\ ~result

\* ------------------------------------------------------------------------
\* C6
\* ------------------------------------------------------------------------

\* C6: the selectors are probed in list order; if the first N candidates
\* are absent and candidate N+1 is present, visible and clickable, then
\* exactly candidate N+1 is clicked, exactly one click happens and no
\* candidate after N+1 is probed.
C6_FirstClickableClicked ==
    /\ Len(Probes) <= Len(Selectors(operation_type))
    /\ \A i \in DOMAIN Probes :
        Probes[i].arg = Selectors(operation_type)[i]
    /\ \A n \in 0..(Len(Selectors(operation_type)) - 1) :
        ( /\ Len(page) > n
          /\ \A i \in 1..n : page[i] = "absent"
          /\ page[n + 1] = "clickable" )
        => /\ Len(page) = n + 1
           /\ Len(Probes) = n + 1
           /\ ClockClicks =
                << Call("click", Selectors(operation_type)[n + 1], FALSE) >>

\* the run ended after three absent candidates and a clickable fourth
C6_Witness ==
    /\ pc = "done"
    /\ page = << "absent", "absent", "absent", "clickable" >>
    /\ operation_type = <<"o","u","t">>

\* ------------------------------------------------------------------------
\* C7
\* ------------------------------------------------------------------------

\* every selector of the list was probed and no click returned
LoopExhausted ==
    /\ Len(page) = Len(Selectors(operation_type))
    /\ \A i \in DOMAIN page : page[i] # "clickable"

\* C7: if no candidate selector of the list yields a clicked element, then
\* once the function is past the loop's failure branch it returns False,
\* no click of a clock button has returned, and a save of
\* button_not_found.png has been attempted before any call of quit.
C7_ButtonNotFound ==
    (LoopExhausted /\ pc \in {"finally", "perform_return", "done"}) =>
        /\ ~result
        /\ ~Clicked
        /\ \E i \in DOMAIN calls :
            /\ calls[i].op = "save_screenshot"
            /\ calls[i].arg = "button_not_found.png"
            /\ \A j \in 1..i : calls[j].op # "quit"

\* the function returned after a list where every candidate was absent,
\* hidden or raised on click
C7_Witness ==
    /\ PerformReturned
    /\ LoopExhausted
    /\ \E i \in DOMAIN page : page[i] = "obscured"
    /\ \E i \in DOMAIN page : page[i] = "hidden"
    /\ QuitCount = 1

\* ------------------------------------------------------------------------
\* C8
\* ------------------------------------------------------------------------

\* the calls login makes on the handle
LoginCalls ==
    { LoginSteps[i] : i \in DOMAIN LoginSteps }
        \cup { [op |-> "save_screenshot", arg |-> "login_error.png"] }

\* C8: in dry-run mode perform_clock_operation is never called, no
\* clock-button selector is probed and no clock button is clicked: the
\* handle only sees the calls of login and the release, and sees none when
\* setup_driver returned no handle.
C8_DryRunNeverClicks ==
    dry_run =>
        /\ operation_type = NoString
        /\ Probes = << >>
        /\ ClockClicks = << >>
        /\ page = << >>
        /\ pc \notin {"perform_start", "probe", "after_loop",
                      "operation_except", "finally", "perform_return"}
        /\ \A i \in DOMAIN calls :
            \/ calls[i].op = "quit"
            \/ [op |-> calls[i].op, arg |-> calls[i].arg] \in LoginCalls
        /\ (driver = "None" => calls = << >>)

\* a dry run ended after a successful login
C8_Witness ==
    /\ dry_run
    /\ pc = "done"
    /\ login_result
    /\ QuitCount = 1

\* ------------------------------------------------------------------------
\* C9
\* ------------------------------------------------------------------------

\* C9: for an operation argument other than 'in' and 'out' main ends with
\* a rejection (status 2) before setup_driver, login or any browser call.
C9_RejectBeforeBrowser ==
    (operation \notin { <<"i","n">>, <<"o","u","t">> }) =>
        /\ pc \in {"parse_args", "exited"}
        /\ attempts = << >>
        /\ driver = NoValue
        /\ calls = << >>
        /\ (pc = "exited" => rc = 2)

\* the argument 'IN' was rejected
C9_Witness ==
    /\ pc = "exited"
    /\ operation = <<"I","N">>
    /\ rc = 2

\* ------------------------------------------------------------------------
\* C10
\* ------------------------------------------------------------------------

StrategyHandles == << "wdm_driver", "manual_driver", "system_driver" >>

\* C10: setup_driver attempts its strategies in the order 1, 2, 3, attempts
\* a strategy only after the one before it failed, returns the handle of
\* the first strategy that succeeds, returns None only after all three
\* were attempted and failed, and raises nothing to its caller.
C10_StrategyOrder ==
    /\ Len(attempts) <= 3
    /\ \A i \in DOMAIN attempts :
        /\ attempts[i].strategy = i
        /\ (i > 1 => ~attempts[i - 1].ok)
    /\ (pc \in SetupLabels =>
            /\ driver = NoValue
            /\ \A i \in DOMAIN attempts : ~attempts[i].ok)
    /\ (pc \notin (SetupLabels \cup BeforeSetup) =>
            /\ Len(attempts) >= 1
            /\ IF attempts[Len(attempts)].ok
               THEN driver = StrategyHandles[Len(attempts)]
               ELSE Len(attempts) = 3 /\ driver = "None")
    /\ (pc = "crashed" => HandleReturned /\ QuitCount = 1)

\* setup_driver returned None after three failed strategies, the second
\* one with the fallback version
C10_Witness ==
    /\ pc = "sd_return"
    /\ driver = "None"
    /\ Len(attempts) = 3
    /\ chrome_version = FallbackVersion

\* ------------------------------------------------------------------------
\* C11
\* ------------------------------------------------------------------------

\* C11: when --env names an existing file (and the shell sets no
\* credential), the credentials of the ClockAutomation instance are the
\* ones that file defines, also when the .env loaded at import defines the
\* same variables with other values.
C11_EnvFileCredentials ==
    ( /\ pc \notin {"parse_args", "main_dispatch", "exited"}
      /\ env_file.exists
      /\ shell_env = NoVars )
    => /\ (env_file.vars["CLOCK_USERNAME"] # NoValue
                => username = env_file.vars["CLOCK_USERNAME"])
       /\ (env_file.vars["CLOCK_PASSWORD"] # NoValue
                => password = env_file.vars["CLOCK_PASSWORD"])

\* ------------------------------------------------------------------------
\* C12
\* ------------------------------------------------------------------------

\* C12 as stated: perform_clock_operation never propagates an exception,
\* and an exception raised by any driver call in any stage (quit included)
\* gives the result False.
C12_AnyExceptionGivesFalse ==
    ~dry_run =>
        /\ pc # "crashed"
        /\ (PerformReturned /\ (\E i \in DOMAIN calls : calls[i].raised)
                => ~result)

\* C12 as amended: for a string operation type perform_clock_operation
\* returns a boolean and never propagates an exception; an exception of a
\* driver call of login or of a screenshot of the operation stage gives the
\* result False; an exception of a probe or click of a clock-button
\* candidate or of quit is absorbed and leaves the result to the other
\* steps.
C12_StageExceptionGivesFalse ==
    ~dry_run =>
        /\ pc # "crashed"
        /\ result \in BOOLEAN
        /\ (PerformReturned /\ StageRaised => ~result)
        /\ (PerformReturned /\ result =>
                \A i \in DOMAIN calls :
                    calls[i].raised =>
                        \/ IsProbe(calls[i])
                        \/ IsClockClick(calls[i])
                        \/ calls[i].op = "quit")

\* the call returned False after the navigation, the error screenshot and
\* quit all raised, for an operation type that is neither in nor out
C12_Witness ==
    /\ pc = "perform_return"
    /\ operation_type = <<"p","u","n","c","h">>
    /\ calls = << Call("get", "login_url", TRUE),
                  Call("save_screenshot", "login_error.png", TRUE),
                  Call("quit", "driver", TRUE) >>
    /\ ~result

\* ------------------------------------------------------------------------
\* C13
\* ------------------------------------------------------------------------

\* call i of the log is a call of login's try block that raised
LoginCallRaised(i) ==
    /\ i <= Len(LoginSteps)
    /\ calls[i].raised
    /\ calls[i].op = LoginSteps[i].op
    /\ calls[i].arg = LoginSteps[i].arg

\* C13: if a step of login raises, login leaves its try block at once,
\* attempts login_error.png as its next call, returns False and does not
\* propagate (the operation handler is not entered), also when the error
\* screenshot raises; afterwards the handle sees nothing but quit: no
\* second navigation and no re-submission of the credentials.
C13_LoginException ==
    \A i \in DOMAIN calls :
        LoginCallRaised(i) =>
            /\ pc \notin {"login", "login_check", "probe", "after_loop",
                          "operation_except"}
            /\ (pc = "login_except" => Len(calls) = i)
            /\ (pc # "login_except" =>
                    /\ Len(calls) > i
                    /\ calls[i + 1].op = "save_screenshot"
                    /\ calls[i + 1].arg = "login_error.png"
                    /\ ~login_result
                    /\ \A j \in (i + 2)..Len(calls) : calls[j].op = "quit")
            /\ (PerformReturned => ~result)
            /\ CountCalls(calls, "get") = 1
            /\ CountCalls(calls, "send_keys") <= 2

\* login returned after the wait for the username field raised and the
\* error screenshot raised too
C13_Witness ==
    /\ pc = "login_return"
    /\ ~login_result
    /\ calls = << Call("get", "login_url", FALSE),
                  Call("save_screenshot", "login_page.png", FALSE),
                  Call("wait_presence", "Username", TRUE),
                  Call("save_screenshot", "login_error.png", TRUE) >>

\* ------------------------------------------------------------------------
\* C14
\* ------------------------------------------------------------------------

\* C14: in dry-run mode, whenever setup_driver returned a handle, quit has
\* been called exactly once when main returns, whether login succeeded or
\* not, and a failure of quit does not leave main as an exception.
C14_DryRunRelease ==
    dry_run =>
        /\ pc # "crashed"
        /\ QuitCount <= 1
        /\ (pc = "done" /\ HandleReturned => QuitCount = 1)

\* ------------------------------------------------------------------------
\* C15
\* ------------------------------------------------------------------------

\* C15: within one invocation of perform_clock_operation nothing is
\* attempted twice: setup_driver runs once and each of its strategies at
\* most once, login runs at most once (no call on the handle is made twice
\* with the same argument), and each candidate selector is probed at most
\* once, in list order.
C15_NothingTwice ==
    ~dry_run =>
        /\ \A i, j \in DOMAIN attempts :
            attempts[i].strategy = attempts[j].strategy => i = j
        /\ CountCalls(calls, "get") <= 1
        /\ \A i \in DOMAIN calls : \A j \in (i + 1)..Len(calls) :
            calls[i].op # calls[j].op \/ calls[i].arg # calls[j].arg
        /\ Len(Probes) <= Len(Selectors(operation_type))
        /\ \A i \in DOMAIN Probes :
            Probes[i].arg = Selectors(operation_type)[i]

\* the invocation ended after three strategy attempts, a login and probes
\* of all six candidates
C15_Witness ==
    /\ PerformReturned
    /\ Len(attempts) = 3
    /\ login_result
    /\ Len(Probes) = 6
    /\ page[6] = "clickable"

\* ------------------------------------------------------------------------
\* C16
\* ------------------------------------------------------------------------

IsShot(c, name) == c.op = "save_screenshot" /\ c.arg = name

\* C16: after_operation.png is attempted only where login succeeded and a
\* click of a clock button has returned, and after that click;
\* button_not_found.png and after_operation.png are never both attempted;
\* login_page.png is attempted before any credential is typed, and
\* after_login.png only after the submit click.
C16_ScreenshotOrder ==
    /\ \A i \in DOMAIN calls :
        IsShot(calls[i], "after_operation.png") =>
            /\ login_result
            /\ \E j \in 1..(i - 1) :
                IsClockClick(calls[j]) /\ ~calls[j].raised
    /\ ~ \E i, j \in DOMAIN calls :
            /\ IsShot(calls[i], "button_not_found.png")
            /\ IsShot(calls[j], "after_operation.png")
    /\ \A j \in DOMAIN calls :
        calls[j].op = "send_keys" =>
            \E i \in 1..(j - 1) : IsShot(calls[i], "login_page.png")
    /\ \A i \in DOMAIN calls :
        IsShot(calls[i], "after_login.png") =>
            \E j \in 1..(i - 1) :
                calls[j] = Call("click", "[type='submit']", FALSE)

\* the final screenshot was attempted and raised, after a click on the
\* second candidate
C16_Witness ==
    /\ PerformReturned
    /\ page = << "obscured", "clickable" >>
    /\ \E i \in DOMAIN calls :
        calls[i] = Call("save_screenshot", "after_operation.png", TRUE)

\* ------------------------------------------------------------------------
\* C17
\* ------------------------------------------------------------------------

\* what holds of every state of an invocation: at most 6 probes, at most 3
\* strategy attempts, and a return with a handle only after the release
BoundedAttempts ==
    /\ Len(Probes) <= 6
    /\ Len(attempts) <= 3
    /\ (pc = "perform_return" /\ HandleReturned =>
            /\ QuitCount = 1
            /\ calls[Len(calls)].op = "quit")

\* C17: every invocation of perform_clock_operation terminates when every
\* driver call returns or raises: the selector loop makes at most 6 probes,
\* driver provisioning at most 3 attempts, and the function reaches its
\* return, through the release block when it holds a handle.
C17_Terminates ==
    /\ []BoundedAttempts
    /\ <>(pc = "perform_return")

\* the invocation returned after three provisioning attempts and six
\* probes
C17_Witness ==
    /\ pc = "perform_return"
    /\ Len(attempts) = 3
    /\ driver = "system_driver"
    /\ Len(Probes) = 6
    /\ QuitCount = 1

\* ------------------------------------------------------------------------
\* C18
\* ------------------------------------------------------------------------

\* C18 as stated: click() is invoked on at most one clock-button element;
\* once it was invoked, whether it returned or raised, no later candidate
\* is probed or clicked.
C18_AtMostOneClickIssued ==
    /\ Len(ClockClicks) <= 1
    /\ \A i \in DOMAIN calls :
        IsClockClick(calls[i]) =>
            \A j \in (i + 1)..Len(calls) :
                ~IsProbe(calls[j]) /\ ~IsClockClick(calls[j])

\* C18 as amended: click() returns on at most one clock-button element;
\* once a click has returned, no later candidate is probed or clicked; a
\* click that raised on a candidate before the last is followed by the
\* probe of the next candidate, each candidate being clicked at most once.
C18_AtMostOneClickReturned ==
    /\ Len(ClockClicks) <= 6
    /\ \A i \in DOMAIN calls :
        (IsClockClick(calls[i]) /\ ~calls[i].raised) =>
            /\ \A j \in DOMAIN calls :
                (IsClockClick(calls[j]) /\ ~calls[j].raised) => j = i
            /\ \A j \in (i + 1)..Len(calls) :
                ~IsProbe(calls[j]) /\ ~IsClockClick(calls[j])
    /\ LET last == Selectors(operation_type)[6]
       IN  \A i \in DOMAIN calls :
            ( /\ IsClockClick(calls[i])
              /\ calls[i].raised
              /\ calls[i].arg # last )
            => IF Len(calls) = i
               THEN pc = "probe"
               ELSE /\ IsProbe(calls[i + 1])
                    /\ calls[i + 1].arg # calls[i].arg

\* the run ended after two clicks that raised and a third that returned
C18_Witness ==
    /\ pc = "done"
    /\ page = << "obscured", "obscured", "clickable" >>
    /\ Len(ClockClicks) = 3

\* ------------------------------------------------------------------------
\* C19
\* ------------------------------------------------------------------------

ClockInSet == { ClockInSelectors[i] : i \in DOMAIN ClockInSelectors }
ClockOutSet == { ClockOutSelectors[i] : i \in DOMAIN ClockOutSelectors }

\* C19: perform_clock_operation probes clock-in selectors only when the
\* operation type is 'in' and clock-out selectors only when it is 'out',
\* in any letter case; for any other value no selector is probed and no
\* button is clicked.
C19_SelectorListByType ==
    /\ \A i \in DOMAIN Probes :
        /\ (Probes[i].arg \in ClockInSet
                => Lower(operation_type) = <<"i","n">>)
        /\ (Probes[i].arg \in ClockOutSet
                => Lower(operation_type) = <<"o","u","t">>)
    /\ (Lower(operation_type) \notin { <<"i","n">>, <<"o","u","t">> }
            => Probes = << >> /\ ClockClicks = << >>)

\* ------------------------------------------------------------------------
\* C20
\* ------------------------------------------------------------------------

\* the positions at which the next step calls the handle
CallingLabels ==
    {"login", "login_except", "probe", "after_loop", "operation_except",
     "finally"}

\* C20: in every run of main the handle is called only while live: no call
\* before setup_driver returned a handle, none on a None handle, and none
\* after quit was invoked.
C20_HandleUsedWhileLive ==
    /\ (calls # << >> =>
            /\ HandleReturned
            /\ pc \notin (SetupLabels \cup BeforeSetup))
    /\ \A i \in DOMAIN calls : calls[i].op = "quit" => i = Len(calls)
    /\ (pc \in CallingLabels => HandleReturned /\ QuitCount = 0)
    /\ (pc = "login_return" /\ dry_run => HandleReturned /\ QuitCount = 0)

\* a dry run ended: twelve calls of login and the release as the last call
C20_Witness ==
    /\ dry_run
    /\ pc = "done"
    /\ Len(calls) = 13
    /\ calls[13] = Call("quit", "driver", FALSE)

====
